---- MODULE Spec2Model ----
(***************************************************************************)
(* Model of activate.py: find a trial billing account, resolve the current *)
(* gcloud project (interactively if none is configured) and link the two.  *)
(*                                                                         *)
(* A Python str is a sequence of tokens.  A token is a word, or one of the *)
(* separators NL (newline), COMMA and SP (blank).  An optional value       *)
(* (None or a str) is a sequence of length 0 (None) or 1.                  *)
(***************************************************************************)
EXTENDS Integers, Sequences, FiniteSets, TLC

VARIABLES
    pc,            \* position of main (and of the function it is inside)
    stdout,        \* what the listing command that is running has printed so far
    output,        \* local `output` of the running function, while something reads it
    reader,        \* find_active_billing_account: the rows csv_reader has yet to yield
    ret,           \* value a function has returned, not yet consumed by main
    display_name,  \* main: display_name (optional str)
    billing_id,    \* main: billing_id (optional str)
    project_id,    \* main: project_id (optional str)
    projects,      \* select_project: projects (list of rows)
    selection,     \* select_project: selection (the last line read from stdin)
    calls,         \* the external commands invoked so far, in order
    queried,       \* what each current-project query has returned, in order
    stderr,        \* the diagnostics printed so far, in order
    success,       \* "Successfully linked project." has been printed
    exit_status,   \* None while running, else the process exit status
    selected,      \* history: what select_project returned (None before it does)
    n_invalid,     \* stdin: number of invalid lines the user has supplied
    valid_supplied \* stdin: the user has supplied a valid line

vars == << pc, stdout, output, reader, ret, display_name, billing_id, project_id, projects,
           selection, calls, queried, stderr, success, exit_status,
           selected, n_invalid, valid_supplied >>

-----------------------------------------------------------------------------
(* Bounds of the model *)

\* most lines the billing-account listing prints (header included)
MaxBillingLines == 3
\* most lines the project listing prints (header included)
MaxProjectLines == 3
\* most invalid lines the user types at the selection prompt
MaxInvalid == 2

-----------------------------------------------------------------------------
(* Strings *)

NL == "\n"
COMMA == ","
SP == " "

None == << >>
Some(s) == << s >>
EmptyStr == << >>

\* Python truthiness of an optional str: None and "" are falsy
Falsy(o) == o = None \/ o = Some(EmptyStr)

IsSpace(t) == t \in {NL, SP}

\* str.strip(): what lies between the first and the last token that is no blank
Strip(s) ==
    LET keep == {i \in 1..Len(s) : ~IsSpace(s[i])}
    IN  IF keep = {} THEN << >>
        ELSE SubSeq(s, CHOOSE i \in keep : \A j \in keep : i <= j,
                       CHOOSE i \in keep : \A j \in keep : j <= i)

\* str.split(sep): the pieces between the separators, always at least one
Split(s, sep) ==
    LET at == {i \in 1..Len(s) : s[i] = sep}
        \* the place of the k-th separator; 0 and Len(s) + 1 bound the string
        cut(k) == IF k = 0 THEN 0
                  ELSE IF k = Cardinality(at) + 1 THEN Len(s) + 1
                  ELSE CHOOSE i \in at : Cardinality({j \in at : j < i}) = k - 1
    IN  [k \in 1..(Cardinality(at) + 1) |-> SubSeq(s, cut(k - 1) + 1, cut(k) - 1)]

\* the lines io.StringIO(text) iterates over (a final newline opens no line)
Lines(text) ==
    IF text = << >> THEN << >>
    ELSE LET ps == Split(text, NL)
         IN  IF ps[Len(ps)] = << >> THEN SubSeq(ps, 1, Len(ps) - 1) ELSE ps

\* csv.reader on one line: an empty line is the row [], else the fields
CsvRow(line) == IF line = << >> THEN << >> ELSE Split(line, COMMA)

\* list(csv.reader(io.StringIO(text))): the lines are split once, then each
\* line is read as a row
CsvReader(text) ==
    LET read(ls) == [i \in 1..Len(ls) |-> CsvRow(ls[i])]
    IN  CHOOSE rows \in {read(ls) : ls \in {Lines(text)}} : TRUE

\* `m in s` for strs
Contains(s, m) ==
    \E i \in 1..(Len(s) - Len(m) + 1) : SubSeq(s, i, i + Len(m) - 1) = m

-----------------------------------------------------------------------------
(* What the external tool can print *)

Marker == << "Trial", "Billing", "Account" >>
TrueLit == << "True" >>

TrialName == << "My", "Trial", "Billing", "Account" >>
OtherName == << "Main", "Billing", "Account" >>
IdABC == << "billingAccounts/ABC123" >>
IdXYZ == << "billingAccounts/XYZ789" >>

\* the lines `gcloud beta billing accounts list` can print
BillingLines ==
    { << "display_name", COMMA, "name", COMMA, "open" >>,
      TrialName \o << COMMA >> \o IdABC \o << COMMA, "True" >>,
      TrialName \o << COMMA >> \o IdXYZ \o << COMMA, "True" >>,
      TrialName \o << COMMA >> \o IdABC \o << COMMA, "False" >>,
      OtherName \o << COMMA >> \o IdABC \o << COMMA, "True" >>,
      TrialName \o << COMMA >> \o IdABC \o << COMMA, "True", COMMA, "x" >>,
      TrialName \o << COMMA, COMMA, "True" >>,
      << >> }

\* the lines `gcloud projects list` can print
ProjectLines ==
    { << "project_id", COMMA, "name" >>,
      << "proj-1", COMMA, "Name", "One" >>,
      << "proj-2", COMMA, "Name", "Two" >>,
      << COMMA, "No", "Id" >>,
      << "proj-3" >>,
      << >> }

\* stdout of `gcloud config get-value project`
ConfigOutputs ==
    { << >>, << NL >>, << "my-project", NL >>, << "proj-1", NL >> }

\* exit status of an external command
ExitCodes == {0, 1}

\* lines the user can type at the prompt
Inputs ==
    { << >>, << "a", "b", "c" >>, << "0" >>, << "1" >>, << "2" >>, << "3" >>,
      << "-", "1" >>, << "+", "1" >>, << SP, "2", SP >>,
      << "1", ".", "5" >>, << "1", "0" >> }

-----------------------------------------------------------------------------
(* int(selection) *)

DigitVal(d) ==
    CASE d = "0" -> 0 [] d = "1" -> 1 [] d = "2" -> 2 [] d = "3" -> 3
      [] d = "4" -> 4 [] d = "5" -> 5 [] d = "6" -> 6 [] d = "7" -> 7
      [] d = "8" -> 8 [] d = "9" -> 9

IsDigit(t) == t \in {"0", "1", "2", "3", "4", "5", "6", "7", "8", "9"}

IsSign(t) == t \in {"+", "-"}

\* the digits of a literal, after the blanks around it and its sign are dropped
Unsigned(s) ==
    LET t == Strip(s)
    IN  IF t # << >> /\ IsSign(Head(t)) THEN Tail(t) ELSE t

\* int(s) does not raise ValueError
IsInt(s) ==
    /\ Unsigned(s) # << >>
    /\ \A i \in 1..Len(Unsigned(s)) : IsDigit(Unsigned(s)[i])

RECURSIVE DigitsVal(_)
DigitsVal(ds) ==
    IF ds = << >> THEN 0
    ELSE 10 * DigitsVal(SubSeq(ds, 1, Len(ds) - 1)) + DigitVal(ds[Len(ds)])

\* int(s), for s with IsInt(s)
IntVal(s) ==
    IF Head(Strip(s)) = "-" THEN 0 - DigitsVal(Unsigned(s)) ELSE DigitsVal(Unsigned(s))

-----------------------------------------------------------------------------
(* run_gcloud_command *)

\* mutant: the check flag is not passed on, so no failure ever raises
run_gcloud_command_m(raw, rc, check) == [exits |-> FALSE, out |-> Strip(raw)]

\* Outcome of subprocess.run(command, check=check) printing `raw` and exiting
\* with rc: CalledProcessError (then sys.exit(1)) or the stripped stdout.
run_gcloud_command(raw, rc, check) ==
    IF check /\ rc # 0
    THEN [exits |-> TRUE, out |-> EmptyStr]
    ELSE [exits |-> FALSE, out |-> Strip(raw)]

Call(cmd, args, check, rc) == [cmd |-> cmd, args |-> args, check |-> check, rc |-> rc]

-----------------------------------------------------------------------------
(* find_active_billing_account *)

\* the condition of line 40
RowMatches(row) == Len(row) = 3 /\ row[3] = TrueLit /\ Contains(row[1], Marker)

\* mutant: the header is not skipped
SkipHeader_m(rows) == rows

\* what is left of the reader once next(csv_reader) has taken the header
SkipHeader(rows) == Tail(rows)

-----------------------------------------------------------------------------
(* select_project *)

\* the tuple unpacking of line 76 raises ValueError on a row that has not two fields
UnpackFails(projs) == \E i \in 1..Len(projs) : Len(projs[i]) # 2

\* mutant: the lower bound of the range test is missing
InRange_m(selection_index, n) == selection_index < n

\* mutant: the range test takes the index for the menu number
InRange_off(selection_index, n) == 1 <= selection_index /\ selection_index < n

\* the range test of line 83
InRange(selection_index, n) == 0 <= selection_index /\ selection_index < n

\* projects[i] has an element (Python indexing, negative indices from the end)
HasIndex(projs, i) == 0 - Len(projs) <= i /\ i < Len(projs)

PyIndex(projs, i) == IF i < 0 THEN projs[Len(projs) + i + 1] ELSE projs[i + 1]

\* one turn of the loop of lines 79-88 on the line s
PromptOutcome(s, projs) ==
    IF ~IsInt(s) THEN "invalid_input"
    ELSE IF ~InRange(IntVal(s) - 1, Len(projs)) THEN "invalid_selection"
    ELSE IF ~HasIndex(projs, IntVal(s) - 1) THEN "traceback"
    ELSE "valid"

\* the user's line is an integer among the menu's numbers
ValidLine(s, n) == IsInt(s) /\ IntVal(s) \in 1..n

-----------------------------------------------------------------------------
(* main *)

\* mutant: `if billing_id is None`
no_billing_m(bid) == bid = None

\* line 100: if not billing_id
no_billing(bid) == Falsy(bid)

\* mutant: the selection is entered whatever the query returned
no_current_project_m(pid) == TRUE

\* line 109: if not project_id
no_current_project(pid) == Falsy(pid)

\* mutant: `if project_id is None`
no_selection_m(pid) == pid = None

\* line 112: if not project_id
no_selection(pid) == Falsy(pid)

\* mutant: `if project_id is None`
still_no_project_m(pid) == pid = None

\* line 121: if not project_id
still_no_project(pid) == Falsy(pid)

\* the "Invalid ..." diagnostics of lines 86 and 88 printed so far
Reprompts == Cardinality({i \in DOMAIN stderr : stderr[i] \in {"invalid_selection", "invalid_input"}})

\* mutant: the confirming query's result is not assigned
refetch_m(current, out) == current

\* line 119: project_id = get_current_project()
refetch(current, out) == Some(out)

\* the arguments line 92 puts on the command line of the linking command
link_args(pid, bid) == << pid[1], bid[1] >>

Init ==
    /\ pc = "find_run"
    /\ stdout = EmptyStr
    /\ output = EmptyStr
    /\ reader = << >>
    /\ ret = None
    /\ display_name = None
    /\ billing_id = None
    /\ project_id = None
    /\ projects = << >>
    /\ selection = EmptyStr
    /\ calls = << >>
    /\ queried = << >>
    /\ stderr = << >>
    /\ success = FALSE
    /\ exit_status = None
    /\ selected = None
    /\ n_invalid = 0
    /\ valid_supplied = FALSE

\* sys.exit(status) after the diagnostic diag
Exit(status, diag) ==
    /\ pc' = "exited"
    /\ exit_status' = Some(status)
    /\ stderr' = Append(stderr, diag)

\* the lines printed so far
Printed == Cardinality({i \in DOMAIN stdout : stdout[i] = NL})

\* line 24: the billing listing prints one more line
BillingListPrints ==
    /\ pc = "find_run"
    /\ Printed < MaxBillingLines
    /\ \E line \in BillingLines : stdout' = stdout \o line \o << NL >>
    /\ UNCHANGED << pc, output, reader, ret, display_name, billing_id, project_id,
                    projects, selection, calls, queried, stderr, success,
                    exit_status, selected, n_invalid, valid_supplied >>

\* lines 24-25: the listing command of find_active_billing_account ends
FindRun ==
    /\ pc = "find_run"
    /\ \E rc \in ExitCodes :
         LET r == run_gcloud_command(stdout, rc, TRUE)
         IN  /\ calls' = Append(calls, Call("billing_list", << >>, TRUE, rc))
             /\ IF r.exits
                THEN Exit(1, "command_error") /\ output' = output
                ELSE /\ pc' = "find_parse"
                     /\ output' = r.out
                     /\ UNCHANGED << exit_status, stderr >>
    /\ stdout' = EmptyStr
    /\ UNCHANGED << reader, ret, display_name, billing_id, project_id, projects,
                    selection, queried, success, selected, n_invalid, valid_supplied >>

\* lines 27-36: no output, or the reader past the header
FindParse ==
    /\ pc = "find_parse"
    /\ IF output = EmptyStr \/ CsvReader(output) = << >>
       THEN ret' = << None, None >> /\ pc' = "main_98" /\ reader' = reader
       ELSE reader' = SkipHeader(CsvReader(output)) /\ pc' = "find_loop" /\ ret' = ret
    /\ UNCHANGED << stdout, output, display_name, billing_id, project_id, projects,
                    selection, calls, queried, stderr, success, exit_status,
                    selected, n_invalid, valid_supplied >>

\* lines 39-43: one turn of the loop over the remaining rows
FindLoop ==
    /\ pc = "find_loop"
    /\ IF reader = << >>
       THEN ret' = << None, None >> /\ pc' = "main_98" /\ reader' = reader
       ELSE IF RowMatches(Head(reader))
       THEN /\ ret' = << Some(Head(reader)[1]), Some(Head(reader)[2]) >>
            /\ pc' = "main_98"
            /\ reader' = reader
       ELSE reader' = Tail(reader) /\ UNCHANGED << pc, ret >>
    /\ UNCHANGED << stdout, output, display_name, billing_id, project_id, projects,
                    selection, calls, queried, stderr, success, exit_status,
                    selected, n_invalid, valid_supplied >>

\* lines 98-104: main takes the pair and fails fast without a billing id
Main98 ==
    /\ pc = "main_98"
    /\ display_name' = ret[1]
    /\ billing_id' = ret[2]
    /\ ret' = None
    /\ output' = EmptyStr
    /\ reader' = << >>
    /\ IF no_billing(ret[2])
       THEN Exit(1, "no_billing")
       ELSE pc' = "get_project" /\ UNCHANGED << exit_status, stderr >>
    /\ UNCHANGED << stdout, project_id, projects, selection, calls, queried, success,
                    selected, n_invalid, valid_supplied >>

\* lines 107 and 45-50: the first current-project query
GetProject ==
    /\ pc = "get_project"
    /\ \E raw \in ConfigOutputs, rc \in ExitCodes :
         LET r == run_gcloud_command(raw, rc, FALSE)
         IN  /\ calls' = Append(calls, Call("config_get", << >>, FALSE, rc))
             /\ IF r.exits
                THEN Exit(1, "command_error") /\ UNCHANGED << project_id, queried >>
                ELSE /\ project_id' = Some(r.out)
                     /\ queried' = Append(queried, r.out)
                     /\ pc' = "main_109"
                     /\ UNCHANGED << exit_status, stderr >>
    /\ UNCHANGED << stdout, reader, output, ret, display_name, billing_id, projects, selection,
                    success, selected, n_invalid, valid_supplied >>

\* line 109: a configured project goes straight to the check of line 121
Main109 ==
    /\ pc = "main_109"
    /\ pc' = IF no_current_project(project_id) THEN "select_run" ELSE "main_121"
    /\ UNCHANGED << stdout, reader, output, ret, display_name, billing_id, project_id, projects,
                    selection, calls, queried, stderr, success, exit_status,
                    selected, n_invalid, valid_supplied >>

\* line 55: the project listing prints one more line
ProjectListPrints ==
    /\ pc = "select_run"
    /\ Printed < MaxProjectLines
    /\ \E line \in ProjectLines : stdout' = stdout \o line \o << NL >>
    /\ UNCHANGED << pc, output, reader, ret, display_name, billing_id, project_id,
                    projects, selection, calls, queried, stderr, success,
                    exit_status, selected, n_invalid, valid_supplied >>

\* lines 54-56: the listing command of select_project ends
SelectRun ==
    /\ pc = "select_run"
    /\ \E rc \in ExitCodes :
         LET r == run_gcloud_command(stdout, rc, TRUE)
         IN  /\ calls' = Append(calls, Call("projects_list", << >>, TRUE, rc))
             /\ IF r.exits
                THEN Exit(1, "command_error") /\ output' = output
                ELSE /\ pc' = "select_parse"
                     /\ output' = r.out
                     /\ UNCHANGED << exit_status, stderr >>
    /\ stdout' = EmptyStr
    /\ UNCHANGED << reader, ret, display_name, billing_id, project_id, projects,
                    selection, queried, success, selected, n_invalid, valid_supplied >>

\* lines 58-69: no output, or the rows after the header.  Nothing reads
\* `output` after line 62, so the model drops it here.
SelectParse ==
    /\ pc = "select_parse"
    /\ IF output = EmptyStr \/ CsvReader(output) = << >>
       THEN /\ stderr' = Append(stderr, "no_projects")
            /\ ret' = None
            /\ selected' = None
            /\ pc' = "main_111"
            /\ UNCHANGED projects
       ELSE /\ projects' = Tail(CsvReader(output))
            /\ pc' = "select_menu"
            /\ UNCHANGED << ret, selected, stderr >>
    /\ output' = EmptyStr
    /\ UNCHANGED << stdout, reader, display_name, billing_id, project_id, selection,
                    calls, queried, success, exit_status, n_invalid, valid_supplied >>

\* lines 71-77: no projects, or the menu; the unpacking of line 76 is outside
\* every try, so its ValueError ends the process with a traceback and status 1
SelectMenu ==
    /\ pc = "select_menu"
    /\ IF projects = << >>
       THEN /\ stderr' = Append(stderr, "no_projects")
            /\ ret' = None
            /\ selected' = None
            /\ pc' = "main_111"
            /\ UNCHANGED exit_status
       ELSE IF UnpackFails(projects)
       THEN Exit(1, "traceback") /\ UNCHANGED << ret, selected >>
       ELSE pc' = "select_prompt" /\ UNCHANGED << ret, selected, stderr, exit_status >>
    /\ UNCHANGED << stdout, output, reader, display_name, billing_id, project_id, projects,
                    selection, calls, queried, success, n_invalid, valid_supplied >>

\* lines 79-88: one line of input and what the loop does with it
SelectPrompt ==
    /\ pc = "select_prompt"
    /\ \E s \in Inputs :
         LET o == PromptOutcome(s, projects)
         IN  /\ o = "valid" \/ Reprompts < MaxInvalid
             /\ selection' = s
             /\ valid_supplied' = (valid_supplied \/ ValidLine(s, Len(projects)))
             /\ n_invalid' = IF ValidLine(s, Len(projects)) THEN n_invalid ELSE n_invalid + 1
             /\ CASE o = "valid" ->
                       /\ ret' = Some(PyIndex(projects, IntVal(s) - 1)[1])
                       /\ selected' = Some(PyIndex(projects, IntVal(s) - 1)[1])
                       /\ pc' = "main_111"
                       /\ UNCHANGED << stderr, exit_status >>
                  [] o = "traceback" ->
                       /\ Exit(1, "traceback")
                       /\ UNCHANGED << ret, selected >>
                  [] OTHER ->
                       /\ stderr' = Append(stderr, o)
                       /\ UNCHANGED << pc, ret, selected, exit_status >>
    /\ UNCHANGED << stdout, reader, output, display_name, billing_id, project_id, projects,
                    calls, queried, success >>

\* lines 111-116: main takes the selection and fails fast without one
Main111 ==
    /\ pc = "main_111"
    /\ project_id' = ret
    /\ ret' = None
    /\ output' = EmptyStr
    /\ projects' = << >>
    /\ selection' = EmptyStr
    /\ IF no_selection(ret)
       THEN Exit(1, "no_project_selected")
       ELSE pc' = "set_project" /\ UNCHANGED << exit_status, stderr >>
    /\ UNCHANGED << stdout, reader, display_name, billing_id, calls, queried, success,
                    selected, n_invalid, valid_supplied >>

\* line 117: gcloud config set project <project_id>
SetProject ==
    /\ pc = "set_project"
    /\ \E rc \in ExitCodes :
         LET r == run_gcloud_command(EmptyStr, rc, TRUE)
         IN  /\ calls' = Append(calls, Call("config_set", << project_id[1] >>, TRUE, rc))
             /\ IF r.exits
                THEN Exit(1, "command_error")
                ELSE pc' = "reget_project" /\ UNCHANGED << exit_status, stderr >>
    /\ UNCHANGED << stdout, reader, output, ret, display_name, billing_id, project_id, projects,
                    selection, queried, success, selected, n_invalid, valid_supplied >>

\* line 119: the query that confirms the project set
RegetProject ==
    /\ pc = "reget_project"
    /\ \E raw \in ConfigOutputs, rc \in ExitCodes :
         LET r == run_gcloud_command(raw, rc, FALSE)
         IN  /\ calls' = Append(calls, Call("config_get", << >>, FALSE, rc))
             /\ IF r.exits
                THEN Exit(1, "command_error") /\ UNCHANGED << project_id, queried >>
                ELSE /\ project_id' = refetch(project_id, r.out)
                     /\ queried' = Append(queried, r.out)
                     /\ pc' = "main_121"
                     /\ UNCHANGED << exit_status, stderr >>
    /\ UNCHANGED << stdout, reader, output, ret, display_name, billing_id, projects, selection,
                    success, selected, n_invalid, valid_supplied >>

\* lines 121-125: still no project is fatal
Main121 ==
    /\ pc = "main_121"
    /\ IF still_no_project(project_id)
       THEN Exit(1, "set_failed")
       ELSE pc' = "link" /\ UNCHANGED << exit_status, stderr >>
    /\ UNCHANGED << stdout, reader, output, ret, display_name, billing_id, project_id, projects,
                    selection, calls, queried, success, selected, n_invalid, valid_supplied >>

\* lines 128 and 90-93: link_billing_account
Link ==
    /\ pc = "link"
    /\ \E rc \in ExitCodes :
         LET r == run_gcloud_command(EmptyStr, rc, TRUE)
         IN  /\ calls' = Append(calls,
                    Call("billing_link", link_args(project_id, billing_id), TRUE, rc))
             /\ IF r.exits
                THEN Exit(1, "command_error")
                ELSE pc' = "main_130" /\ UNCHANGED << exit_status, stderr >>
    /\ UNCHANGED << stdout, reader, output, ret, display_name, billing_id, project_id, projects,
                    selection, queried, success, selected, n_invalid, valid_supplied >>

\* line 130 and the return of main: the success message, exit status 0
Main130 ==
    /\ pc = "main_130"
    /\ success' = TRUE
    /\ pc' = "exited"
    /\ exit_status' = Some(0)
    /\ UNCHANGED << stdout, reader, output, ret, display_name, billing_id, project_id, projects,
                    selection, calls, queried, stderr, selected, n_invalid, valid_supplied >>

\* every step of the program; a step that runs an external command is taken
\* when the command ends
ProgramNext ==
    \/ FindRun \/ FindParse \/ FindLoop \/ Main98 \/ GetProject \/ Main109
    \/ SelectRun \/ SelectParse \/ SelectMenu \/ Main111 \/ SetProject
    \/ RegetProject \/ Main121 \/ Link \/ Main130

\* what the program waits for: the output of a listing, a line on stdin
EnvNext == BillingListPrints \/ ProjectListPrints \/ SelectPrompt

Next == ProgramNext \/ EnvNext

Spec == Init /\ [][Next]_vars

\* the program is sequential and every external command returns; the user
\* owes the prompt nothing
LiveSpec == Init /\ [][Next]_vars /\ WF_vars(ProgramNext)

-----------------------------------------------------------------------------
(* Properties *)

Present(o) == o # None /\ o # Some(EmptyStr)

CallsOf(cmd) == {i \in DOMAIN calls : calls[i].cmd = cmd}

Diag(d) == \E i \in DOMAIN stderr : stderr[i] = d

Exited == pc = "exited"

\* C1: the linking command runs at most once, only with a non-empty billing
\* identifier from the finder and a non-empty project identifier; without a
\* billing account no other command than the billing listing runs; with a
\* billing account and a configured project the run that ends has called the
\* linker exactly once, with that project and that billing identifier.
C1_LinkOnlyAfterBillingAndProject ==
    /\ Cardinality(CallsOf("billing_link")) <= 1
    /\ \A i \in CallsOf("billing_link") :
         /\ Present(billing_id) /\ Present(project_id)
         /\ calls[1].cmd = "billing_list" /\ calls[1].rc = 0
         /\ \E j \in 1..(i - 1) : calls[j].cmd = "config_get"
         /\ calls[i].args = << project_id[1], billing_id[1] >>
    /\ (\E i \in DOMAIN calls : calls[i].cmd # "billing_list") => Present(billing_id)
    /\ (Exited /\ Len(queried) >= 1 /\ queried[1] # EmptyStr) =>
         /\ Len(calls) = 3
         /\ calls[3].cmd = "billing_link"
         /\ calls[3].args = << queried[1], billing_id[1] >>

C1_Witness ==
    /\ Exited /\ success
    /\ queried = << << "my-project" >> >>
    /\ calls[3].args = << << "my-project" >>, IdABC >>

\* C2: a run that has ended has status 0 or 1; 0 exactly when the linking
\* command was invoked and succeeded; 1 after a failed fatal-on-error command,
\* without a billing account, without projects to select, and when the project
\* is still unresolved after the selection.
C2_ExitStatus ==
    /\ exit_status \in {None, Some(0), Some(1)}
    /\ Exited <=> exit_status # None
    /\ Exited =>
         /\ exit_status = Some(0) <=> \E i \in CallsOf("billing_link") : calls[i].rc = 0
         /\ (\E i \in DOMAIN calls : calls[i].check /\ calls[i].rc # 0) => exit_status = Some(1)
         /\ ~Present(billing_id) => exit_status = Some(1)
         /\ Diag("no_projects") => exit_status = Some(1)
         /\ (Len(queried) = 2 /\ queried[2] = EmptyStr) => exit_status = Some(1)

C2_Witness ==
    /\ Exited /\ exit_status = Some(1)
    /\ Len(queried) = 2 /\ queried[2] = EmptyStr

\* the row is one the finder may select
Qualifies(row) == Len(row) = 3 /\ row[3] = << "True" >> /\ Contains(row[1], Marker)

\* the first qualifying data row of the listing, as (display name, identifier)
ExpectedAccount(out) ==
    LET rows == CsvReader(out)
        hits == {i \in 2..Len(rows) : Qualifies(rows[i])}
    IN  IF hits = {} THEN << None, None >>
        ELSE LET k == CHOOSE i \in hits : \A j \in hits : i <= j
             IN  << Some(rows[k][1]), Some(rows[k][2]) >>

\* C3: the finder returns the display name and identifier of the first data
\* row that has exactly three fields, open-state "True" and the marker in its
\* display name, and (None, None) when there is none; the first line of the
\* output, the header, is never a candidate.
C3_FinderResult == pc = "main_98" => ret = ExpectedAccount(output)

C3_Witness ==
    /\ pc = "main_98"
    /\ Len(CsvReader(output)) = 3
    /\ Qualifies(CsvReader(output)[1])
    /\ ~Qualifies(CsvReader(output)[2])
    /\ ret = << Some(TrialName), Some(IdXYZ) >>

\* C4: a row of a listing with the wrong number of fields never ends the run
\* abnormally and is never the row selected.
C4_MalformedRowsSkipped ==
    /\ ~Diag("traceback")
    /\ (pc = "main_98" /\ ret # << None, None >>) =>
         \E i \in 1..Len(CsvReader(output)) :
            /\ Len(CsvReader(output)[i]) = 3
            /\ ret = << Some(CsvReader(output)[i][1]), Some(CsvReader(output)[i][2]) >>
    /\ (pc = "main_111" /\ ret # None) =>
         \E i \in 1..Len(projects) : Len(projects[i]) = 2 /\ ret = Some(projects[i][1])

\* C5: at the prompt, a line that is an integer k in 1..N ends the loop and
\* returns the identifier of the k-th project; every other line prints one
\* diagnostic and prompts again without ending the loop or the process; the
\* diagnostics printed are as many as the invalid lines supplied.
C5_PromptLoop ==
    /\ [](Reprompts = n_invalid)
    /\ [][pc = "select_prompt" =>
            IF ValidLine(selection', Len(projects))
            THEN /\ pc' = "main_111"
                 /\ ret' = Some(projects[IntVal(selection')][1])
                 /\ stderr' = stderr
                 /\ exit_status' = None
            ELSE /\ pc' = "select_prompt"
                 /\ projects' = projects
                 /\ stderr' = Append(stderr, IF IsInt(selection') THEN "invalid_selection"
                                                                  ELSE "invalid_input")
                 /\ exit_status' = None]_vars

C5_Witness ==
    /\ pc = "main_111"
    /\ stderr = << "invalid_input", "invalid_selection" >>
    /\ n_invalid = 2
    /\ Len(projects) = 2
    /\ ret = Some(<< "proj-2" >>)

\* C6: the current project is set at most once and read at most twice; it is
\* set only after a first read that returned nothing and a selection that
\* returned a non-empty identifier; the second read directly follows a set.
C6_ConfigAccess ==
    /\ Cardinality(CallsOf("config_set")) <= 1
    /\ Cardinality(CallsOf("config_get")) <= 2
    /\ \A i \in CallsOf("config_set") :
         /\ \E j \in 1..(i - 1) : calls[j].cmd = "config_get"
         /\ Len(queried) >= 1 /\ queried[1] = EmptyStr
         /\ Present(selected)
         /\ calls[i].args = << selected[1] >>
    /\ \A i \in CallsOf("config_get") :
         (\E j \in 1..(i - 1) : calls[j].cmd = "config_get") =>
            calls[i - 1].cmd = "config_set" /\ calls[i - 1].rc = 0

C6_Witness ==
    /\ Cardinality(CallsOf("config_set")) = 1
    /\ Cardinality(CallsOf("config_get")) = 2

\* the last command invoked is cmd
LastCall(cmd) == calls # << >> /\ calls[Len(calls)].cmd = cmd

\* C7: a failed fatal-on-error command is the last command of the run, which
\* has ended with status 1 and without the success message; a not-found
\* condition is followed by no further command; nothing happens after the exit.
C7_FailFast ==
    /\ [](/\ \A i \in DOMAIN calls :
               (calls[i].check /\ calls[i].rc # 0) =>
                  i = Len(calls) /\ Exited /\ exit_status = Some(1) /\ ~success
          /\ Diag("no_billing") => Exited /\ Len(calls) = 1 /\ ~success
          /\ Diag("no_projects") =>
               pc \in {"main_111", "exited"} /\ LastCall("projects_list") /\ ~success
          /\ Diag("no_project_selected") =>
               Exited /\ LastCall("projects_list") /\ ~success
          /\ Diag("set_failed") =>
               Exited /\ LastCall("config_get") /\ ~success)
    /\ [][~Exited]_vars

C7_Witness ==
    /\ Exited
    /\ LastCall("config_set")
    /\ calls[Len(calls)].rc = 1
    /\ Len(queried) = 1
    /\ ~success

\* C8 as stated: after the selection of p the run invokes the set-project
\* command with p and then re-queries the current project.
C8_Original ==
    (Exited /\ Present(selected)) =>
        \E i \in CallsOf("config_set") :
           /\ calls[i].args = << selected[1] >>
           /\ i < Len(calls)
           /\ calls[i + 1].cmd = "config_get"

\* C8, amended: after an empty first query (whatever its exit status) and the
\* selection of p, the set-project command is invoked with exactly p; if it
\* succeeds the current project is queried again, if it fails the run ends
\* there with status 1; an empty second query ends the run with status 1 and
\* the linker is never invoked.
C8_SetThenRequery ==
    /\ (Present(selected) /\ pc \notin {"main_111", "set_project"}) =>
          CallsOf("config_set") # {} /\ queried[1] = EmptyStr
    /\ \A i \in CallsOf("config_set") :
         /\ Present(selected)
         /\ calls[i].args = << selected[1] >>
         /\ calls[i - 1].cmd = "projects_list"
         /\ (calls[i].rc = 0 /\ pc # "reget_project") =>
               i < Len(calls) /\ calls[i + 1].cmd = "config_get" /\ Len(queried) = 2
         /\ calls[i].rc # 0 => Exited /\ i = Len(calls) /\ exit_status = Some(1)
    /\ (Len(queried) = 2 /\ queried[2] = EmptyStr) =>
         /\ CallsOf("billing_link") = {}
         /\ pc \in {"main_121", "exited"}
         /\ Exited => exit_status = Some(1)

C8_Witness ==
    /\ Exited
    /\ Len(calls) = 5
    /\ calls[2].cmd = "config_get" /\ calls[2].rc = 1
    /\ selected = Some(<< "proj-1" >>)
    /\ calls[4].cmd = "config_set" /\ calls[4].args = << << "proj-1" >> >>
    /\ Len(queried) = 2 /\ queried[2] = EmptyStr
    /\ exit_status = Some(1)

\* C9: the linker receives the output of the most recent current-project
\* query, which directly precedes it, and the billing identifier the finder
\* returned, the only value main ever gives billing_id.
C9_LinkerGetsQueried ==
    /\ [](\A i \in CallsOf("billing_link") :
             /\ queried # << >>
             /\ calls[i - 1].cmd = "config_get"
             /\ calls[i].args = << queried[Len(queried)], billing_id[1] >>)
    /\ [][billing_id' # billing_id => pc = "main_98" /\ billing_id' = ret[2]]_vars

C9_Witness ==
    /\ Present(selected)
    /\ \E i \in CallsOf("billing_link") : calls[i].args[1] # selected[1]

\* C10: every run ends, or stays at the prompt for ever without a valid line
\* ever supplied.
C10_Termination ==
    (<>[](pc = "select_prompt" /\ ~valid_supplied)) \/ <>Exited

C10_Witness ==
    /\ Exited /\ success
    /\ n_invalid >= 1
    /\ valid_supplied

====
